---- MODULE Spec2Model ----
(***************************************************************************)
(* A model of agno's BraveSearchTools toolkit                              *)
(* (libs/agno/agno/tools/bravesearch.py): the constructor __init__ and the *)
(* one registered tool, brave_search.                                      *)
(*                                                                         *)
(* Python values are represented as follows.                               *)
(*   Optional[x]   None is <<>>, a present value x is <<x>>                *)
(*   str           an atomic TLA+ string; the result of an f-string or of  *)
(*                 str() is the sequence of its segments                   *)
(*   dict          the sequence of its <<key, value>> items, in insertion  *)
(*                 order                                                   *)
(*   JSON text     what json.dumps produces: the sequence of members       *)
(*                 <<key, <<type tag, encoded value>>>> of one object      *)
(*   exception     <<class name, message>>                                 *)
(***************************************************************************)
EXTENDS Integers, Sequences, FiniteSets, TLC

VARIABLES
    in_api_key,            \* __init__ argument api_key
    in_fixed_max_results,  \* __init__ argument fixed_max_results
    in_fixed_language,     \* __init__ argument fixed_language
    environ,               \* the value of BRAVE_API_KEY in the environment
    ctor_pc,               \* position of __init__
    getenv_called,         \* whether __init__ has called getenv("BRAVE_API_KEY")
    api_key,               \* self.api_key
    fixed_max_results,     \* self.fixed_max_results
    fixed_language,        \* self.fixed_language
    brave_client,          \* self.brave_client
    tools,                 \* the tools registered with Toolkit.__init__
    call                   \* per thread: the frame of its brave_search invocation

ctor_vars == <<in_api_key, in_fixed_max_results, in_fixed_language, environ,
               ctor_pc, getenv_called, brave_client, tools>>
self_vars == <<api_key, fixed_max_results, fixed_language>>
vars == <<ctor_vars, self_vars, call>>

-----------------------------------------------------------------------------
(* Bounds and program constants *)

MaxResultsLen == 2          \* longest result list the client returns
DefaultMaxResults == 5      \* brave_search(max_results=5)
DefaultWaitTime == 5        \* __init__(wait_time=5)
DefaultRetries == 3         \* __init__(retries=3)

Threads == {"t1", "t2"}
MainThread == "t1"

None == <<>>
Some(x) == <<x>>

ApiKeyArgs == {None, Some(""), Some("key-arg")}
EnvValues == {None, Some(""), Some("key-env")}
FixedMaxResultsArgs == {None, Some(0), Some(1)}
FixedLanguageArgs == {None, Some(""), Some("fr")}

Queries == {None, Some(""), Some("cats")}
MaxResultsArgs == {DefaultMaxResults, 1}
Countries == {"US", "DE"}
SearchLangs == {"en", "es"}
Messages == {"rate limited", "timeout"}

-----------------------------------------------------------------------------
(* Python helpers *)

\* bool(v) of an Optional[str]: None and "" are falsy
TruthyStr(v) == v # None /\ v[1] # ""

\* bool(v) of an Optional[int], had line 75 tested truthiness: None and 0 are falsy
TruthyInt(v) == v # None /\ v[1] # 0

\* `a or b` on Optional[str] operands
OrStr(a, b) == IF TruthyStr(a) THEN a ELSE b

-----------------------------------------------------------------------------
(* BraveSearchTools.__init__ *)

\* line 35, `api_key or getenv("BRAVE_API_KEY")`: getenv is evaluated only when
\* the left operand is falsy
NeedsGetenv(arg) == ~TruthyStr(arg)

ResolveApiKeyEnvFirst(arg, env) == OrStr(env, arg)

ResolveApiKey(arg, env) == OrStr(arg, env)

ApiKeyMissingIsNone(key) == key = None

\* line 36, `if not self.api_key`
ApiKeyMissing(key) == ~TruthyStr(key)

\* the BraveSearch(...) object built at lines 42-46
BraveSearch(key, wait_time, retries) ==
    [api_key |-> key, wait_time |-> wait_time, retries |-> retries]

IdleFrame ==
    [pc |-> "idle", query |-> None, max_results |-> DefaultMaxResults,
     country |-> "US", search_lang |-> "en",
     final_max_results |-> 0, final_search_lang |-> "",
     search_results |-> None, exc |-> None, filtered_results |-> <<>>,
     ret |-> None, events |-> <<>>,
     outcome |-> None]   \* what the client did in this invocation, for the record

Init ==
    /\ in_api_key \in ApiKeyArgs
    /\ environ \in EnvValues
    /\ in_fixed_max_results \in FixedMaxResultsArgs
    /\ in_fixed_language \in FixedLanguageArgs
    /\ ctor_pc = "L35"
    /\ getenv_called = FALSE
    /\ api_key = None
    /\ fixed_max_results = None
    /\ fixed_language = None
    /\ brave_client = None
    /\ tools = <<>>
    /\ call = [t \in Threads |-> IdleFrame]

\* line 35
InitResolveApiKey ==
    /\ ctor_pc = "L35"
    /\ api_key' = ResolveApiKey(in_api_key, environ)
    /\ getenv_called' = NeedsGetenv(in_api_key)
    /\ ctor_pc' = "L36"
    /\ UNCHANGED <<in_api_key, in_fixed_max_results, in_fixed_language, environ,
                   fixed_max_results, fixed_language, brave_client, tools, call>>

\* lines 36-37
InitCheckApiKey ==
    /\ ctor_pc = "L36"
    /\ ctor_pc' = IF ApiKeyMissing(api_key) THEN "raised" ELSE "L39"
    /\ UNCHANGED <<in_api_key, in_fixed_max_results, in_fixed_language, environ,
                   getenv_called, api_key, fixed_max_results, fixed_language,
                   brave_client, tools, call>>

\* lines 39-40
InitStoreFixed ==
    /\ ctor_pc = "L39"
    /\ fixed_max_results' = in_fixed_max_results
    /\ fixed_language' = in_fixed_language
    /\ ctor_pc' = "L42"
    /\ UNCHANGED <<in_api_key, in_fixed_max_results, in_fixed_language, environ,
                   getenv_called, api_key, brave_client, tools, call>>

\* lines 42-46
InitCreateClient ==
    /\ ctor_pc = "L42"
    /\ brave_client' = Some(BraveSearch(api_key[1], DefaultWaitTime, DefaultRetries))
    /\ ctor_pc' = "L48"
    /\ UNCHANGED <<in_api_key, in_fixed_max_results, in_fixed_language, environ,
                   getenv_called, api_key, fixed_max_results, fixed_language,
                   tools, call>>

\* lines 48-55
InitRegisterTools ==
    /\ ctor_pc = "L48"
    /\ tools' = Append(tools, "brave_search")
    /\ ctor_pc' = "done"
    /\ UNCHANGED <<in_api_key, in_fixed_max_results, in_fixed_language, environ,
                   getenv_called, api_key, fixed_max_results, fixed_language,
                   brave_client, call>>

Constructor ==
    \/ InitResolveApiKey
    \/ InitCheckApiKey
    \/ InitStoreFixed
    \/ InitCreateClient
    \/ InitRegisterTools

-----------------------------------------------------------------------------
(* What the owned client (bravesearch.BraveSearch.search) can do *)

\* pydantic HttpUrl objects; str(url) is modelled by StrUrl
UrlA == [scheme |-> "https", host |-> "a.example"]
UrlB == [scheme |-> "http", host |-> "b.example"]

ResultA == [title |-> <<"str", "Cats">>, url |-> UrlA,
            description |-> <<"str", "About cats">>]
ResultB == [title |-> <<"str", "Dogs">>, url |-> UrlB,
            description |-> <<"str", "About dogs">>]
\* a result whose title json.dumps cannot encode
ResultBytes == [title |-> <<"bytes", "raw">>, url |-> UrlA,
                description |-> <<"str", "About cats">>]

ResultLists ==
    UNION {[1..n -> {ResultA, ResultB}] : n \in 0..MaxResultsLen}
        \cup {<<ResultBytes>>}

\* search_results: None, a response without a web section, a response whose
\* web section has a result list, a response whose web section has no
\* `results` attribute
Responses ==
    {None, Some([web |-> None])}
        \cup {Some([web |-> Some([has_results |-> TRUE, results |-> rs])]) :
                rs \in ResultLists}
        \cup {Some([web |-> Some([has_results |-> FALSE, results |-> <<>>])])}

\* exception classes and their base class (BraveSearchAPIError, imported at
\* line 9, derives from Exception)
Base(cls) ==
    CASE cls = "BraveSearchAPIError" -> "Exception"
      [] cls = "TimeoutError" -> "Exception"
      [] cls = "AttributeError" -> "Exception"
      [] cls = "TypeError" -> "Exception"
      [] OTHER -> "BaseException"

IsInstance(cls, of) == cls = of \/ Base(cls) = of

ClientOutcomes ==
    {<<"return", r>> : r \in Responses}
        \cup {<<"raise", <<cls, m>>>> :
                cls \in {"BraveSearchAPIError", "TimeoutError"}, m \in Messages}

-----------------------------------------------------------------------------
(* json.dumps *)

JsonTypes == {"str", "int", "list"}

RECURSIVE Encodable(_)
Encodable(dict) ==
    \A i \in DOMAIN dict :
        LET v == dict[i][2] IN
        /\ v[1] \in JsonTypes
        /\ v[1] = "list" => \A j \in DOMAIN v[2] : Encodable(v[2][j])

RECURSIVE Dumps(_)
Dumps(dict) ==
    [i \in DOMAIN dict |->
        LET k == dict[i][1]
            v == dict[i][2]
        IN CASE v[1] = "str" -> <<k, <<"string", v[2]>>>>
             [] v[1] = "int" -> <<k, <<"number", v[2]>>>>
             [] v[1] = "list" ->
                    <<k, <<"array", [j \in DOMAIN v[2] |-> Dumps(v[2][j])]>>>>]

-----------------------------------------------------------------------------
(* BraveSearchTools.brave_search *)

StrUrl(url) == <<url.scheme, "://", url.host>>

FinalMaxResultsOr(fixed, max_results) ==
    IF TruthyInt(fixed) THEN fixed[1] ELSE max_results

\* line 75
FinalMaxResults(fixed, max_results) ==
    IF fixed # None THEN fixed[1] ELSE max_results

\* line 76
FinalSearchLang(fixed, search_lang) ==
    IF fixed # None THEN fixed[1] ELSE search_lang

QueryMissingIsNone(query) == query = None

\* line 78, `if not query`
QueryMissing(query) == ~TruthyStr(query)

ErrorDictWithQuery(msg) ==
    <<<<"error", <<"str", msg>>>>, <<"query", <<"str", "">>>>>>

\* the dict of lines 79, 114 and 117
ErrorDict(msg) == <<<<"error", <<"str", msg>>>>>>

\* line 98: the truth value of
\* `search_results and search_results.web and search_results.web.results`
HasResults(search_results) ==
    /\ search_results # None
    /\ search_results[1].web # None
    /\ search_results[1].web[1].results # <<>>

\* line 98 reads an attribute that the response does not have
ShapeError(search_results) ==
    /\ search_results # None
    /\ search_results[1].web # None
    /\ ~search_results[1].web[1].has_results

\* lines 101-105
WebResult(result) ==
    <<<<"title", result.title>>,
      <<"url", <<"str", StrUrl(result.url)>>>>,
      <<"description", result.description>>>>

\* lines 99-106
WebResults(results) == [i \in 1..Len(results) |-> WebResult(results[i])]

\* lines 92-108
FilteredResults(query, search_results) ==
    LET web_results ==
            IF HasResults(search_results)
            THEN WebResults(search_results[1].web[1].results)
            ELSE <<>>
    IN <<<<"web_results", <<"list", web_results>>>>,
         <<"query", <<"str", query>>>>,
         <<"total_results", <<"int", Len(web_results)>>>>>>

HandlerForGenericFirst(cls) ==
    IF IsInstance(cls, "Exception") THEN "L115"
    ELSE IF IsInstance(cls, "BraveSearchAPIError") THEN "L112"
    ELSE "none"

HandlerForApiOnly(cls) ==
    IF IsInstance(cls, "BraveSearchAPIError") THEN "L112" ELSE "none"

\* lines 112 and 115: the first except clause that matches
HandlerFor(cls) ==
    IF IsInstance(cls, "BraveSearchAPIError") THEN "L112"
    ELSE IF IsInstance(cls, "Exception") THEN "L115"
    ELSE "none"

SearchArgs(f) ==
    [q |-> f.query[1], count |-> f.final_max_results, country |-> f.country,
     search_lang |-> f.final_search_lang, result_filter |-> "web"]

Return(f, text) ==
    [f EXCEPT !.pc = "returned", !.ret = Some(text),
              !.events = Append(@, <<"return", text>>)]

Raise(f, cls, msg) == [f EXCEPT !.pc = "except", !.exc = Some(<<cls, msg>>)]

Callable == ctor_pc = "done" /\ \E i \in DOMAIN tools : tools[i] = "brave_search"

\* the arguments of one invocation
AllArgs ==
    [query : Queries, max_results : MaxResultsArgs, country : Countries,
     search_lang : SearchLangs]

\* the defaults of lines 60-62, and an invocation that overrides all three
SomeArgs ==
    {a \in AllArgs :
        \/ a.max_results = DefaultMaxResults /\ a.country = "US" /\ a.search_lang = "en"
        \/ a.max_results # DefaultMaxResults /\ a.country # "US" /\ a.search_lang # "en"}

\* the host calls the registered tool with arguments drawn from Args
Invoke(t, Args) ==
    /\ Callable
    /\ call[t].pc \in {"idle", "returned"}
    /\ \E a \in Args :
          call' = [call EXCEPT ![t] =
                      [IdleFrame EXCEPT !.pc = "L75", !.query = a.query,
                                        !.max_results = a.max_results,
                                        !.country = a.country,
                                        !.search_lang = a.search_lang]]
    /\ UNCHANGED <<ctor_vars, self_vars>>

ResolveParamsStoring(t) ==
    /\ call[t].pc = "L75"
    /\ call' = [call EXCEPT ![t] =
                  [@ EXCEPT !.pc = "L78",
                            !.final_max_results =
                                FinalMaxResults(fixed_max_results, call[t].max_results),
                            !.final_search_lang =
                                FinalSearchLang(fixed_language, call[t].search_lang)]]
    /\ fixed_max_results' =
          Some(FinalMaxResults(fixed_max_results, call[t].max_results))
    /\ UNCHANGED <<ctor_vars, api_key, fixed_language>>

\* lines 75-76
ResolveParams(t) ==
    /\ call[t].pc = "L75"
    /\ call' = [call EXCEPT ![t] =
                  [@ EXCEPT !.pc = "L78",
                            !.final_max_results =
                                FinalMaxResults(fixed_max_results, call[t].max_results),
                            !.final_search_lang =
                                FinalSearchLang(fixed_language, call[t].search_lang)]]
    /\ UNCHANGED <<ctor_vars, self_vars>>

\* lines 78-79
CheckQuery(t) ==
    /\ call[t].pc = "L78"
    /\ call' = [call EXCEPT ![t] =
                  IF QueryMissing(@.query)
                  THEN Return(@, Dumps(ErrorDict(<<"Please provide a query to search for">>)))
                  ELSE [@ EXCEPT !.pc = "L82"]]
    /\ UNCHANGED <<ctor_vars, self_vars>>

\* line 82
LogInfo(t) ==
    /\ call[t].pc = "L82"
    /\ call' = [call EXCEPT ![t] =
                  [@ EXCEPT !.pc = "L84",
                            !.events = Append(@, <<"log_info",
                                <<"Searching Brave for: ", call[t].query[1]>>>>)]]
    /\ UNCHANGED <<ctor_vars, self_vars>>

\* lines 84-90: self.brave_client.search(...) returns or raises
ClientSearch(t) ==
    /\ call[t].pc = "L84"
    /\ brave_client # None
    /\ \E o \in ClientOutcomes :
          LET f == [call[t] EXCEPT
                      !.events = Append(@, <<"client.search", SearchArgs(call[t])>>),
                      !.outcome = Some(o)]
          IN call' = [call EXCEPT ![t] =
                        IF o[1] = "return"
                        THEN [f EXCEPT !.pc = "L92", !.search_results = o[2]]
                        ELSE Raise(f, o[2][1], o[2][2])]
    /\ UNCHANGED <<ctor_vars, self_vars>>

BuildResultsTruncating(t) ==
    /\ call[t].pc = "L92"
    /\ call' = [call EXCEPT ![t] =
                  IF ShapeError(@.search_results)
                  THEN Raise(@, "AttributeError", "results")
                  ELSE LET full == FilteredResults(call[t].query[1],
                                                   call[t].search_results)
                           n == call[t].final_max_results
                           kept == IF n < Len(full[1][2][2])
                                   THEN SubSeq(full[1][2][2], 1, n)
                                   ELSE full[1][2][2]
                       IN [@ EXCEPT !.pc = "L110",
                                    !.filtered_results =
                                        <<<<"web_results", <<"list", kept>>>>,
                                          full[2],
                                          <<"total_results", <<"int", Len(kept)>>>>>>]]
    /\ UNCHANGED <<ctor_vars, self_vars>>

\* lines 92-108
BuildResults(t) ==
    /\ call[t].pc = "L92"
    /\ call' = [call EXCEPT ![t] =
                  IF ShapeError(@.search_results)
                  THEN Raise(@, "AttributeError", "results")
                  ELSE [@ EXCEPT !.pc = "L110",
                                 !.filtered_results =
                                     FilteredResults(call[t].query[1],
                                                     call[t].search_results)]]
    /\ UNCHANGED <<ctor_vars, self_vars>>

\* line 110
ReturnResults(t) ==
    /\ call[t].pc = "L110"
    /\ call' = [call EXCEPT ![t] =
                  IF Encodable(@.filtered_results)
                  THEN Return(@, Dumps(@.filtered_results))
                  ELSE Raise(@, "TypeError", "not JSON serializable")]
    /\ UNCHANGED <<ctor_vars, self_vars>>

ExceptWithoutLog(t) ==
    /\ call[t].pc = "except"
    /\ LET f == call[t]
           e == f.exc[1][2]
           h == HandlerFor(f.exc[1][1])
       IN call' = [call EXCEPT ![t] =
            CASE h = "L112" ->
                    Return(f, Dumps(ErrorDict(<<"Brave Search API error: ", e>>)))
              [] h = "L115" ->
                    Return(f, Dumps(ErrorDict(<<"An unexpected error occurred: ", e>>)))
              [] OTHER -> [f EXCEPT !.pc = "propagated"]]
    /\ UNCHANGED <<ctor_vars, self_vars>>

\* lines 112-117
Except(t) ==
    /\ call[t].pc = "except"
    /\ LET f == call[t]
           q == f.query[1]
           e == f.exc[1][2]
           h == HandlerFor(f.exc[1][1])
       IN call' = [call EXCEPT ![t] =
            CASE h = "L112" ->
                    Return([f EXCEPT !.events = Append(@, <<"log_error",
                                <<"Brave Search API error for query '", q, "': ", e>>>>)],
                           Dumps(ErrorDict(<<"Brave Search API error: ", e>>)))
              [] h = "L115" ->
                    Return([f EXCEPT !.events = Append(@, <<"log_error",
                                <<"An unexpected error occurred during Brave search for query '",
                                  q, "': ", e>>>>)],
                           Dumps(ErrorDict(<<"An unexpected error occurred: ", e>>)))
              [] OTHER -> [f EXCEPT !.pc = "propagated"]]
    /\ UNCHANGED <<ctor_vars, self_vars>>

BraveSearchStep(t, Args) ==
    \/ Invoke(t, Args)
    \/ ResolveParams(t)
    \/ CheckQuery(t)
    \/ LogInfo(t)
    \/ ClientSearch(t)
    \/ BuildResults(t)
    \/ ReturnResults(t)
    \/ Except(t)

-----------------------------------------------------------------------------
(* Specifications *)

\* one caller: synchronous, sequential invocations
Next == Constructor \/ BraveSearchStep(MainThread, AllArgs)

Spec == Init /\ [][Next]_vars

\* two callers whose invocations interleave
NextConcurrent == Constructor \/ \E t \in Threads : BraveSearchStep(t, SomeArgs)

InitConcurrent == Init /\ in_api_key = Some("key-arg") /\ environ = None

SpecConcurrent == InitConcurrent /\ [][NextConcurrent]_vars
-----------------------------------------------------------------------------
(* Properties *)

Frames == {call[t] : t \in Threads}

InProgress(f) == f.pc \in {"L75", "L78", "L82", "L84", "L92", "L110", "except"}

EventKinds(f) == [i \in DOMAIN f.events |-> f.events[i][1]]

HasEvent(f, kind) == \E i \in DOMAIN f.events : f.events[i][1] = kind

Contains(segments, piece) == \E i \in DOMAIN segments : segments[i] = piece

\* a JSON text of one object whose keys are distinct
IsJsonObject(text) ==
    /\ \A i \in DOMAIN text : text[i][2][1] \in {"string", "number", "array"}
    /\ \A i, j \in DOMAIN text : text[i][1] = text[j][1] => i = j

\* json.loads: the object a JSON text denotes (of a repeated key, the last value)
RECURSIVE Loads(_)
Loads(text) ==
    [k \in {text[i][1] : i \in DOMAIN text} |->
        LET i == CHOOSE i \in DOMAIN text :
                    /\ text[i][1] = k
                    /\ \A j \in DOMAIN text : text[j][1] = k => j <= i
            v == text[i][2]
        IN CASE v[1] = "array" -> [j \in DOMAIN v[2] |-> Loads(v[2][j])]
             [] OTHER -> v[2]]

SuccessKeys == {"web_results", "query", "total_results"}
ErrorKeys == {"error"}

\* C1: every invocation of brave_search ends by returning a JSON string,
\* whatever the client does (a response, BraveSearchAPIError, another error at
\* the client call, or an error while the response is projected or
\* serialized): no exception leaves the function, every unfinished invocation
\* has a next step, and a finished one holds a JSON object text.
C1_AlwaysReturnsJson ==
    \A t \in Threads :
        /\ call[t].pc # "propagated"
        /\ InProgress(call[t]) => ENABLED BraveSearchStep(t, AllArgs)
        /\ call[t].pc = "returned" =>
              /\ call[t].ret # None
              /\ IsJsonObject(call[t].ret[1])
              /\ call[t].events[Len(call[t].events)] = <<"return", call[t].ret[1]>>

\* an invocation returned after the projection of the response raised
C1_Witness ==
    \E f \in Frames :
        /\ f.pc = "returned"
        /\ f.exc # None
        /\ f.exc[1][1] \in {"AttributeError", "TypeError"}

\* C2: an invocation with an empty or None query returns exactly
\* {"error": "Please provide a query to search for"} and never reaches the
\* client, whatever the fixed overrides and the other arguments are.
C2_EmptyQuery ==
    \A t \in Threads :
        LET f == call[t] IN
        (f.pc # "idle" /\ ~TruthyStr(f.query)) =>
            /\ f.pc \in {"L75", "L78", "returned"}
            /\ ~HasEvent(f, "client.search")
            /\ f.outcome = None
            /\ f.pc = "returned" =>
                  /\ Loads(f.ret[1]) =
                        [error |-> <<"Please provide a query to search for">>]
                  /\ f.events = <<<<"return", f.ret[1]>>>>

\* an empty-string query returned, with both overrides configured
C2_Witness ==
    \E f \in Frames :
        /\ f.pc = "returned"
        /\ f.query = Some("")
        /\ fixed_max_results # None
        /\ fixed_language # None
        /\ f.max_results # DefaultMaxResults

\* the parameters the arguments of invocation f and the constructor's arguments
\* call for
ExpectedParams(f) ==
    [q |-> f.query[1],
     count |-> IF in_fixed_max_results # None
               THEN in_fixed_max_results[1]
               ELSE f.max_results,
     country |-> f.country,
     search_lang |-> IF in_fixed_language # None
                     THEN in_fixed_language[1]
                     ELSE f.search_lang,
     result_filter |-> "web"]

\* C3: the client is called with q = the query argument, count =
\* fixed_max_results when the constructor was given one (0 included) and the
\* max_results argument otherwise, search_lang = fixed_language when the
\* constructor was given one ("" included) and the search_lang argument
\* otherwise, country = the country argument, result_filter = "web".
C3_ClientParams ==
    \A t \in Threads :
        \A i \in DOMAIN call[t].events :
            call[t].events[i][1] = "client.search" =>
                call[t].events[i][2] = ExpectedParams(call[t])

\* the client was called under fixed_max_results = 0 and fixed_language = ""
\* with different arguments
C3_Witness ==
    \E f \in Frames :
        /\ HasEvent(f, "client.search")
        /\ in_fixed_max_results = Some(0)
        /\ in_fixed_language = Some("")
        /\ f.max_results = 1
        /\ f.country = "DE"
        /\ f.search_lang = "es"

\* the client was called with the arguments when nothing is fixed
C3_WitnessUnset ==
    \E f \in Frames :
        /\ HasEvent(f, "client.search")
        /\ in_fixed_max_results = None
        /\ in_fixed_language = None
        /\ f.max_results = DefaultMaxResults

\* the result list of a response; none for no response, no web section or an
\* empty list
ResultsOf(response) ==
    IF response = None THEN <<>>
    ELSE IF response[1].web = None THEN <<>>
    ELSE response[1].web[1].results

\* a response of the documented shape whose results hold text only
WellFormed(response) ==
    /\ response # None /\ response[1].web # None =>
          response[1].web[1].has_results
    /\ \A i \in DOMAIN ResultsOf(response) :
          /\ ResultsOf(response)[i].title[1] = "str"
          /\ ResultsOf(response)[i].description[1] = "str"

UrlText(url) ==
    IF url = UrlA THEN <<"https", "://", "a.example">>
    ELSE <<"http", "://", "b.example">>

\* C4: when the client returns N results for a non-empty query (N = 0 for no
\* response, no web section or an empty list), the value returned is the
\* success payload with total_results = N, web_results = the N projections
\* (title, str(url), description) in the provider's order, and query = the
\* query argument; more results than the effective max_results are kept.
C4_SuccessPayload ==
    \A t \in Threads :
        LET f == call[t] IN
        (/\ f.pc = "returned"
         /\ f.outcome # None
         /\ f.outcome[1][1] = "return"
         /\ WellFormed(f.outcome[1][2])) =>
            LET rs == ResultsOf(f.outcome[1][2])
                p == Loads(f.ret[1])
            IN /\ DOMAIN p = SuccessKeys
               /\ p.total_results = Len(rs)
               /\ Len(p.web_results) = Len(rs)
               /\ \A i \in 1..Len(rs) :
                     p.web_results[i] =
                        [title |-> rs[i].title[2],
                         url |-> UrlText(rs[i].url),
                         description |-> rs[i].description[2]]
               /\ p.query = f.query[1]

\* two different results were returned in order although the effective
\* max_results is below two
C4_Witness ==
    \E f \in Frames :
        /\ f.pc = "returned"
        /\ f.outcome # None
        /\ f.outcome[1][1] = "return"
        /\ ResultsOf(f.outcome[1][2]) = <<ResultB, ResultA>>
        /\ f.final_max_results < 2
        /\ Loads(f.ret[1]).total_results = 2

\* a response without results returned a success payload
C4_WitnessEmpty ==
    \E f \in Frames :
        /\ f.pc = "returned"
        /\ f.outcome = Some(<<"return", Some([web |-> None])>>)
        /\ Loads(f.ret[1]).total_results = 0

\* C5: a BraveSearchAPIError with message m is returned as
\* {"error": "Brave Search API error: " + m}, any other error with message m
\* as {"error": "An unexpected error occurred: " + m}, and neither prefix is
\* used for the other kind.
C5_ErrorPrefixes ==
    \A t \in Threads :
        LET f == call[t] IN
        (f.pc = "returned" /\ f.exc # None) =>
            LET cls == f.exc[1][1]
                m == f.exc[1][2]
                p == Loads(f.ret[1])
            IN /\ DOMAIN p = ErrorKeys
               /\ cls = "BraveSearchAPIError" =>
                     p.error = <<"Brave Search API error: ", m>>
               /\ cls # "BraveSearchAPIError" =>
                     p.error = <<"An unexpected error occurred: ", m>>
               /\ f.outcome[1][1] = "raise" => f.outcome[1][2] = f.exc[1]

\* the client raised BraveSearchAPIError("rate limited") and the call returned
C5_Witness ==
    \E f \in Frames :
        /\ f.pc = "returned"
        /\ f.outcome = Some(<<"raise", <<"BraveSearchAPIError", "rate limited">>>>)

\* the client raised another error, "timeout", and the call returned
C5_WitnessGeneric ==
    \E f \in Frames :
        /\ f.pc = "returned"
        /\ f.outcome = Some(<<"raise", <<"TimeoutError", "timeout">>>>)

\* C6: every returned value is the JSON text of one object that has either
\* exactly the keys web_results, query, total_results or exactly the key
\* error; the first only for a non-empty query whose client call and
\* projection raised nothing.
C6_PayloadShapes ==
    \A t \in Threads :
        LET f == call[t] IN
        f.pc = "returned" =>
            LET p == Loads(f.ret[1]) IN
            /\ IsJsonObject(f.ret[1])
            /\ Len(f.ret[1]) = Cardinality(DOMAIN p)
            /\ DOMAIN p = SuccessKeys \/ DOMAIN p = ErrorKeys
            /\ ~(DOMAIN p = SuccessKeys /\ DOMAIN p = ErrorKeys)
            /\ DOMAIN p = SuccessKeys =>
                  /\ TruthyStr(f.query)
                  /\ f.exc = None
                  /\ f.outcome # None
                  /\ f.outcome[1][1] = "return"

\* an error payload was returned for a failure of the client
C6_Witness ==
    \E f \in Frames :
        /\ f.pc = "returned"
        /\ f.exc # None
        /\ DOMAIN Loads(f.ret[1]) = ErrorKeys

\* C7: with no usable api_key argument and BRAVE_API_KEY unset or empty,
\* __init__ raises before anything else is built: no client, no registered
\* tool, no invocation ever; and when __init__ completes, the stored key (and
\* the key handed to the client) is non-empty.
C7_MissingKeyRaises ==
    /\ (~TruthyStr(in_api_key) /\ ~TruthyStr(environ)) =>
          /\ ctor_pc \in {"L35", "L36", "raised"}
          /\ brave_client = None
          /\ tools = <<>>
          /\ \A t \in Threads : call[t] = IdleFrame
          /\ ctor_pc = "L36" => ENABLED InitCheckApiKey
    /\ ctor_pc = "raised" =>
          /\ ~TruthyStr(in_api_key) /\ ~TruthyStr(environ)
          /\ ~ENABLED Next
    /\ ctor_pc \in {"L39", "L42", "L48", "done"} => TruthyStr(api_key)
    /\ brave_client # None => brave_client[1].api_key # ""

\* construction raised with no argument and an empty BRAVE_API_KEY
C7_Witness ==
    /\ ctor_pc = "raised"
    /\ in_api_key = None
    /\ environ = Some("")

\* C8 as stated: whenever an api_key argument is supplied, the empty string
\* included, BRAVE_API_KEY is not read and does not determine the key.
C8_Original ==
    (ctor_pc # "L35" /\ in_api_key # None) =>
        /\ ~getenv_called
        /\ api_key = in_api_key

\* C8, amended: the key is the api_key argument when that is a non-empty
\* string, and BRAVE_API_KEY is then not read; when the argument is None or
\* the empty string, BRAVE_API_KEY is read and is the key.
C8_KeyResolution ==
    ctor_pc # "L35" =>
        /\ TruthyStr(in_api_key) =>
              /\ ~getenv_called
              /\ api_key = in_api_key
              /\ brave_client # None => brave_client[1].api_key = in_api_key[1]
        /\ ~TruthyStr(in_api_key) =>
              /\ getenv_called
              /\ api_key = environ
              /\ brave_client # None => brave_client[1].api_key = environ[1]

\* construction completed with both an argument and BRAVE_API_KEY set
C8_Witness ==
    /\ ctor_pc = "done"
    /\ in_api_key = Some("key-arg")
    /\ environ = Some("key-env")

\* construction completed with an empty-string argument, on BRAVE_API_KEY
C8_WitnessEmptyArg ==
    /\ ctor_pc = "done"
    /\ in_api_key = Some("")
    /\ api_key = Some("key-env")

IsPrefix(s, r) == Len(s) <= Len(r) /\ \A i \in DOMAIN s : s[i] = r[i]

\* C9: in an invocation with a non-empty query the events are, in this order,
\* one info log naming the query, one client call, then either the return of
\* the success payload with no error log, or one error log holding the query
\* and the error's message followed by the return of an error payload.
C9_EventOrder ==
    \A t \in Threads :
        LET f == call[t]
            kinds == EventKinds(f)
        IN TruthyStr(f.query) =>
            /\ \/ IsPrefix(kinds, <<"log_info", "client.search", "return">>)
               \/ IsPrefix(kinds, <<"log_info", "client.search", "log_error", "return">>)
            /\ f.pc = "returned" =>
                  /\ Len(kinds) >= 3
                  /\ kinds[Len(kinds)] = "return"
                  /\ DOMAIN Loads(f.ret[1]) = ErrorKeys <=> HasEvent(f, "log_error")
                  /\ f.exc # None <=> HasEvent(f, "log_error")
            /\ \A i \in DOMAIN f.events :
                  /\ f.events[i][1] = "log_info" =>
                        Contains(f.events[i][2], f.query[1])
                  /\ f.events[i][1] = "log_error" =>
                        /\ f.exc # None
                        /\ Contains(f.events[i][2], f.query[1])
                        /\ Contains(f.events[i][2], f.exc[1][2])

\* the client raised and the invocation returned after its error log
C9_Witness ==
    \E f \in Frames :
        /\ f.pc = "returned"
        /\ f.outcome # None
        /\ f.outcome[1][1] = "raise"
        /\ EventKinds(f) = <<"log_info", "client.search", "log_error", "return">>

SameArgs(f, g) ==
    /\ f.query = g.query
    /\ f.max_results = g.max_results
    /\ f.country = g.country
    /\ f.search_lang = g.search_lang

ClientCalls(f) == SelectSeq(f.events, LAMBDA e : e[1] = "client.search")

\* whatever the other invocations did or are doing, an invocation passes the
\* client the parameters its own arguments and the constructor's arguments
\* call for, and two invocations with the same arguments and the same client
\* outcome return the same payload
Independent ==
    \A t1, t2 \in Threads :
        LET f == call[t1]
            g == call[t2]
        IN /\ ClientCalls(f) # <<>> =>
                ClientCalls(f) = <<<<"client.search", ExpectedParams(f)>>>>
           /\ (/\ f.pc = "returned" /\ g.pc = "returned"
               /\ SameArgs(f, g) /\ f.outcome = g.outcome) =>
                    f.ret = g.ret /\ f.events = g.events

\* once constructed, no step changes the configuration or the client handle
ConfigUnchanged ==
    Callable => UNCHANGED <<api_key, fixed_max_results, fixed_language, brave_client>>

\* C10: after construction no invocation changes api_key, fixed_max_results,
\* fixed_language or brave_client, and for interleaved invocations the
\* parameters passed to the client and the payload returned are determined
\* by the invocation's own arguments, the configuration and the client's
\* outcome for it.
C10_Stateless == []Independent /\ [][ConfigUnchanged]_vars

\* two interleaved invocations with the same non-default arguments and the same
\* client outcome have both returned
C10_Witness ==
    /\ call["t1"].pc = "returned"
    /\ call["t2"].pc = "returned"
    /\ SameArgs(call["t1"], call["t2"])
    /\ call["t1"].max_results = 1
    /\ call["t1"].outcome # None
    /\ call["t1"].outcome = call["t2"].outcome
    /\ fixed_max_results = None
====
